---- MODULE Spec2Model ----
(***************************************************************************)
(* A model of src/index.ts: the GraphQL client (graphqlClient), its tree   *)
(* walker (walkObject / doWalkObject / makePath) and its error model       *)
(* (GraphQlError.fromResponse / fromError / hasErrorCode).                 *)
(*                                                                         *)
(* JavaScript values are records tagged by t: "undefined", "null",         *)
(* "number", "string", "boolean", "file" (an instance of File), "array"    *)
(* (items: a sequence) and "object" (keys: the own enumerable keys in      *)
(* iteration order, vals: their values).  A JSON text is modelled by the   *)
(* value it parses to.                                                     *)
(***************************************************************************)
EXTENDS Integers, Sequences, FiniteSets, TLC

VARIABLES
    variables,   \* the caller's variables object (the heap object the call receives)
    original,    \* ghost: the value of that object when the caller built it
    queryArg,    \* the query argument: a string or an array of strings
    pc,          \* where the current call / operation stands
    calls,       \* number of client calls started on this variables object
    query,       \* the joined query of the current call
    map,         \* the file map of the current call
    files,       \* the file payload set of the current call
    visited,     \* ghost: the visitor's invocations (value, path), in order
    body,        \* the request body built by the current call
    headers,     \* the request headers built by the current call
    firstBody,   \* ghost: the body the first call built
    factoryCalls,\* number of clientFactory() invocations of the current call
    httpClient,  \* what `await clientFactory()` gave: a transport, or a thrown error
    posts,       \* the POSTs the current call issued: (path, body, headers)
    response,    \* what the POST gave: a decoded envelope, or a thrown error
    outcome,     \* how the call's promise settled
    envelope,    \* error model: the envelope handed to fromResponse
    allocated,   \* error model: number of error objects created so far
    err,         \* error model: the error object at hand (id: its identity)
    code,        \* error model: the code asked of hasErrorCode
    classified,  \* error model: what fromError returned
    hasCode      \* error model: what hasErrorCode returned (or that it threw)

vars == <<variables, original, queryArg, pc, calls, query, map, files, visited,
          body, headers, firstBody, factoryCalls, httpClient, posts, response,
          outcome, envelope, allocated, err, code, classified, hasCode>>

callVars == <<variables, original, queryArg, calls, query, map, files, visited,
              body, headers, firstBody, factoryCalls, httpClient, posts,
              response, outcome>>

errVars == <<envelope, allocated, err, code, classified, hasCode>>

---------------------------------------------------------------------------
(* Bounds *)

MaxNodes == 4        \* nodes of a variables tree in the request-building specification
MaxCallNodes == 3    \* nodes of a variables tree in the client-call specification
MaxErrors == 3       \* length of an envelope's errors array in the error-model specification
MaxCallErrors == 1   \* length of an envelope's errors array in the client-call specification
MaxCalls == 2        \* client calls made with the same variables object
MaxObjects == 2      \* error objects created in the error-model specification

---------------------------------------------------------------------------
(* JavaScript values *)

Undefined == [t |-> "undefined"]
Null == [t |-> "null"]
False == [t |-> "boolean", v |-> FALSE]
True == [t |-> "boolean", v |-> TRUE]
Num(n) == [t |-> "number", v |-> n]
Str(s) == [t |-> "string", v |-> s]
FileV(id) == [t |-> "file", id |-> id]
Arr(items) == [t |-> "array", items |-> items]
Obj(keys, vals) == [t |-> "object", keys |-> keys, vals |-> vals]

\* typeof v
TypeOf(v) ==
    IF v.t \in {"null", "file", "array", "object"} THEN "object" ELSE v.t

\* String(v) for the values a path is joined from
ToStr(v) == IF v.t = "number" THEN ToString(v.v) ELSE v.v

RECURSIVE Join(_, _)
\* Array.prototype.join
Join(parts, sep) ==
    IF Len(parts) = 0 THEN ""
    ELSE IF Len(parts) = 1 THEN ToStr(parts[1])
    ELSE ToStr(parts[1]) \o sep \o Join(Tail(parts), sep)

\* [path, key].filter(v => v !== '').join('.')
makePath(path, key) ==
    Join(SelectSeq(<<Str(path), key>>,
                   LAMBDA v : ~(v.t = "string" /\ v.v = "")), ".")

---------------------------------------------------------------------------
(* The tree walker and the file visitor *)

\* The state the visitor closes over: the file map and the payload set
\* (JavaScript objects: functions from key to value), and the log of calls.
NoFiles == [map |-> <<>>, files |-> <<>>, visited |-> <<>>]

\* fileVisitor that records a file but answers true for it (the file stays)
fileVisitorKeepsFile(v, path, st) ==
    IF v.t = "file"
    THEN LET i == Cardinality(DOMAIN st.map)
         IN  [ret |-> True,
              st  |-> [map     |-> [k \in DOMAIN st.map \cup {ToString(i)} |->
                                      IF k = ToString(i)
                                      THEN <<"variables." \o path>>
                                      ELSE st.map[k]],
                       files   |-> [k \in DOMAIN st.files \cup {ToString(i)} |->
                                      IF k = ToString(i) THEN v ELSE st.files[k]],
                       visited |-> Append(st.visited, [v |-> v, path |-> path])]]
    ELSE [ret |-> True,
          st  |-> [st EXCEPT !.visited = Append(@, [v |-> v, path |-> path])]]

\* The callback graphqlClient hands to walkObject
fileVisitor(v, path, st) ==
    IF v.t = "file"
    THEN LET i == Cardinality(DOMAIN st.map)
         IN  [ret |-> False,
              st  |-> [map     |-> [k \in DOMAIN st.map \cup {ToString(i)} |->
                                      IF k = ToString(i)
                                      THEN <<"variables." \o path>>
                                      ELSE st.map[k]],
                       files   |-> [k \in DOMAIN st.files \cup {ToString(i)} |->
                                      IF k = ToString(i) THEN v ELSE st.files[k]],
                       visited |-> Append(st.visited, [v |-> v, path |-> path])]]
    ELSE [ret |-> True,
          st  |-> [st EXCEPT !.visited = Append(@, [v |-> v, path |-> path])]]

RECURSIVE doWalkObject(_, _, _)
RECURSIVE walkItems(_, _, _, _)
RECURSIVE walkKeys(_, _, _, _)

\* obj.forEach((v, i) => { if (doWalkObject(v, fn, makePath(path, i)) === false) obj[i] = null })
\* from (1-based) position n on; the child is mutated in place by its own walk.
walkItems(items, n, path, st) ==
    IF n > Len(items) THEN [items |-> items, st |-> st]
    ELSE LET r == doWalkObject(items[n], makePath(path, Num(n - 1)), st)
         IN  walkItems([items EXCEPT ![n] = IF r.ret = False THEN Null ELSE r.obj],
                       n + 1, path, r.st)

\* Object.keys(obj).forEach(k => { if (doWalkObject(obj[k], fn, makePath(path, k)) === false) obj[k] = null })
walkKeys(obj, n, path, st) ==
    IF n > Len(obj.keys) THEN [obj |-> obj, st |-> st]
    ELSE LET r == doWalkObject(obj.vals[n], makePath(path, Str(obj.keys[n])), st)
         IN  walkKeys([obj EXCEPT !.vals[n] = IF r.ret = False THEN Null ELSE r.obj],
                      n + 1, path, r.st)

\* Returns what the function returns (ret), the object as the walk left it
\* (obj) and the visitor's state.
doWalkObject(obj, path, st) ==
    IF obj # Null /\ obj.t = "array"
    THEN LET r == walkItems(obj.items, 1, path, st)
         IN  [ret |-> Undefined, obj |-> Arr(r.items), st |-> r.st]
    ELSE IF obj # Null /\ TypeOf(obj) = "object" /\ obj.t # "file"
    THEN LET r == walkKeys(obj, 1, path, st)
         IN  [ret |-> Undefined, obj |-> r.obj, st |-> r.st]
    ELSE LET c == fileVisitor(obj, path, st)
         IN  [ret |-> c.ret, obj |-> obj, st |-> c.st]

\* walkObject that returns at once on an undefined root
walkObjectSkipsUndefined(obj) ==
    IF obj = Undefined THEN [ret |-> Undefined, obj |-> obj, st |-> NoFiles]
    ELSE doWalkObject(obj, "", NoFiles)

\* walkObject(obj, fn): the result of the root is dropped
walkObject(obj) == doWalkObject(obj, "", NoFiles)

---------------------------------------------------------------------------
(* Serialization and the request *)

RECURSIVE stringify(_)
RECURSIVE stringifyKeys(_, _)

\* The properties JSON.stringify writes for an object: those whose value
\* does not serialize to undefined.
stringifyKeys(obj, n) ==
    IF n > Len(obj.keys) THEN [keys |-> <<>>, vals |-> <<>>]
    ELSE LET j    == stringify(obj.vals[n])
             rest == stringifyKeys(obj, n + 1)
         IN  IF j = Undefined THEN rest
             ELSE [keys |-> <<obj.keys[n]>> \o rest.keys,
                   vals |-> <<j>> \o rest.vals]

\* JSON.stringify(v), as the value the text parses to (Undefined: no text).
\* A File has no own enumerable properties and is written as {}.
stringify(v) ==
    IF v.t = "array"
    THEN Arr([i \in 1..Len(v.items) |->
                LET j == stringify(v.items[i])
                IN  IF j = Undefined THEN Null ELSE j])
    ELSE IF v.t = "object"
    THEN LET r == stringifyKeys(v, 1) IN Obj(r.keys, r.vals)
    ELSE IF v.t = "file" THEN Obj(<<>>, <<>>)
    ELSE v

\* Object.keys(o) of an object whose keys are integer-like: ascending order
ObjectKeys(o) ==
    SelectSeq([n \in 1..Cardinality(DOMAIN o) + 1 |-> ToString(n - 1)],
              LAMBDA k : k \in DOMAIN o)

\* The file map as the JavaScript object JSON.stringify receives
mapObject(m) ==
    Obj(ObjectKeys(m),
        [n \in 1..Len(ObjectKeys(m)) |->
            Arr([j \in 1..Len(m[ObjectKeys(m)[n]]) |-> Str(m[ObjectKeys(m)[n]][j])])])

\* FormData.set(name, value): replaces the part of that name, or appends one
formSet(form, name, value) ==
    IF \E n \in 1..Len(form) : form[n].name = name
    THEN [n \in 1..Len(form) |->
            IF form[n].name = name THEN [name |-> name, value |-> value] ELSE form[n]]
    ELSE Append(form, [name |-> name, value |-> value])

RECURSIVE setFiles(_, _, _)
\* Object.keys(files).forEach(k => form.set(k, files[k]))
setFiles(form, keys, fs) ==
    IF keys = <<>> THEN form
    ELSE setFiles(formSet(form, Head(keys), fs[Head(keys)]), Tail(keys), fs)

\* query = Array.isArray(query) ? query.join('\n') : query
joinQuery(q) == IF q.t = "array" THEN Join(q.items, "\n") ELSE q.v

\* { query, variables }
operations(q, v) == Obj(<<"query", "variables">>, <<Str(q), v>>)

\* buildRequest that sets Content-Type: application/json for the form too
buildRequestAlwaysContentType(q, v, m, fs) ==
    [body    |-> IF Cardinality(DOMAIN m) # 0
                 THEN [t    |-> "form",
                       form |-> setFiles(
                                  formSet(formSet(<<>>, "operations",
                                                  stringify(operations(q, v))),
                                          "map", stringify(mapObject(m))),
                                  ObjectKeys(fs), fs)]
                 ELSE [t |-> "json", text |-> stringify(operations(q, v))],
     headers |-> [h \in {"Accept", "Content-Type"} |-> "application/json"]]

\* The body and headers graphqlClient builds from the walked variables
buildRequest(q, v, m, fs) ==
    IF Cardinality(DOMAIN m) # 0
    THEN [body    |-> [t    |-> "form",
                       form |-> setFiles(
                                  formSet(formSet(<<>>, "operations",
                                                  stringify(operations(q, v))),
                                          "map", stringify(mapObject(m))),
                                  ObjectKeys(fs), fs)],
          headers |-> [h \in {"Accept"} |-> "application/json"]]
    ELSE [body    |-> [t |-> "json", text |-> stringify(operations(q, v))],
          headers |-> [h \in {"Accept", "Content-Type"} |-> "application/json"]]

---------------------------------------------------------------------------
(* Inputs *)

Leaves == {Null, Num(1), FileV(1), FileV(2)}

\* The keys an enumerated mapping draws from, in insertion order
ObjectKeyPool == <<"a", "">>

\* The key sequences of length m: the subsequences of the pool
KeySeqs(m) ==
    { SelectSeq(ObjectKeyPool, LAMBDA k : k \in S) :
        S \in { T \in SUBSET { ObjectKeyPool[i] : i \in 1..Len(ObjectKeyPool) } :
                  Cardinality(T) = m } }

RECURSIVE TreesOf(_)
RECURSIVE ForestsOf(_)

\* The sequences of trees with n nodes in all
ForestsOf(n) ==
    IF n = 0 THEN { <<>> }
    ELSE UNION { { <<t>> \o f : t \in TreesOf(k), f \in ForestsOf(n - k) } : k \in 1..n }

\* The trees with exactly n nodes
TreesOf(n) ==
    IF n = 0 THEN {}
    ELSE (IF n = 1 THEN Leaves ELSE {})
         \cup { Arr(f) : f \in ForestsOf(n - 1) }
         \cup UNION { { Obj(ks, f) : ks \in KeySeqs(Len(f)) } : f \in ForestsOf(n - 1) }

TreesUpTo(n) == UNION { TreesOf(k) : k \in 1..n }

\* The trees the specification's own examples use
ExampleTrees ==
    { Obj(<<"avatar">>, <<FileV(1)>>),
      Obj(<<"user">>, <<Obj(<<"photos">>, <<Arr(<<Num(1), Null, FileV(2)>>)>>)>>),
      Obj(<<"file", "files">>, <<FileV(1), Arr(<<FileV(2)>>)>>),
      Obj(<<"input">>, <<Obj(<<"attachments">>, <<Arr(<<FileV(1)>>)>>)>>) }

Queries == { Str("query { me }"), Arr(<<Str("query A { a }"), Str("query B { b }")>>) }

---------------------------------------------------------------------------
(* The client call *)

NoOutcome == [kind |-> "pending"]

IdleCall(v, q) ==
    /\ variables = v
    /\ original = v
    /\ queryArg = q
    /\ pc = "idle"
    /\ calls = 0
    /\ query = ""
    /\ map = <<>>
    /\ files = <<>>
    /\ visited = <<>>
    /\ body = Undefined
    /\ headers = <<>>
    /\ firstBody = Undefined
    /\ factoryCalls = 0
    /\ httpClient = Undefined
    /\ posts = <<>>
    /\ response = Undefined
    /\ outcome = NoOutcome

IdleErrors ==
    /\ envelope = Undefined
    /\ allocated = 0
    /\ err = Undefined
    /\ code = Undefined
    /\ classified = Undefined
    /\ hasCode = Undefined

\* The synchronous part of a call, up to `await clientFactory()`: the query
\* is joined, the variables are walked (in place) and the request is built;
\* the factory is invoked and the call suspends on its promise.
Call ==
    /\ pc = "idle"
    /\ LET q   == joinQuery(queryArg)
           w   == walkObject(variables)
           req == buildRequest(q, w.obj, w.st.map, w.st.files)
       IN  /\ query' = q
           /\ variables' = w.obj
           /\ map' = w.st.map
           /\ files' = w.st.files
           /\ visited' = w.st.visited
           /\ body' = req.body
           /\ headers' = req.headers
           /\ firstBody' = IF calls = 0 THEN req.body ELSE firstBody
    /\ calls' = calls + 1
    /\ factoryCalls' = 1
    /\ httpClient' = Undefined
    /\ posts' = <<>>
    /\ response' = Undefined
    /\ outcome' = NoOutcome
    /\ pc' = "awaitFactory"
    /\ UNCHANGED <<original, queryArg>>
    /\ UNCHANGED errVars

\* Request building alone: every tree up to MaxNodes nodes, one call each
InitBuild ==
    /\ \E v \in TreesUpTo(MaxNodes) \cup ExampleTrees \cup {Undefined} :
         \E q \in Queries : IdleCall(v, q)
    /\ IdleErrors

NextBuild == Call

SpecBuild == InitBuild /\ [][NextBuild]_vars

---------------------------------------------------------------------------
(* The error model *)

GraphQlErrorName == "GraphQlError"

\* new Error(message): an error object without codes or errors properties.
\* id is the object's identity (0: an object created outside this code).
newError(id, message) ==
    [t |-> "error", id |-> id, class |-> "Error", name |-> "Error", message |-> message,
     codes |-> Undefined, errors |-> Undefined]

\* new GraphQlError(message): the field initializers and the constructor
\* (the stack trace it captures, by either mechanism, is not part of the model)
newGraphQlError(id, message) ==
    [t |-> "error", id |-> id, class |-> "GraphQlError", name |-> GraphQlErrorName,
     message |-> message, codes |-> Arr(<<>>), errors |-> Arr(<<>>)]

\* JavaScript truthiness
Truthy(v) ==
    CASE v.t = "undefined" -> FALSE
      [] v.t = "null"      -> FALSE
      [] v.t = "number"    -> v.v # 0
      [] v.t = "string"    -> v.v # ""
      [] v.t = "boolean"   -> v.v
      [] OTHER             -> TRUE

RECURSIVE pushCodes(_, _, _)
\* err.errors.forEach(e => { if (e.extensions && e.extensions.code) err.codes.push(e.extensions.code) })
\* from (1-based) position n on
pushCodes(errors, n, codes) ==
    IF n > Len(errors) THEN codes
    ELSE pushCodes(errors, n + 1,
                   IF Truthy(errors[n].extensions) /\ Truthy(errors[n].extensions.code)
                   THEN Append(codes, errors[n].extensions.code)
                   ELSE codes)

\* fromResponse that pushes every defined code, truthy or not
fromResponseDefinedCodes(id, data) ==
    LET e0 == newGraphQlError(id, "unknown error")
    IN  IF data.errors # Undefined
        THEN LET e1 == [e0 EXCEPT !.errors = data.errors]
                 S  == SelectSeq(e1.errors.items, LAMBDA e :
                         Truthy(e.extensions) /\ e.extensions.code # Undefined)
             IN  IF Len(e1.errors.items) # 0
                 THEN [e1 EXCEPT !.message = e1.errors.items[1].message,
                                 !.codes = Arr([k \in 1..Len(S) |-> S[k].extensions.code])]
                 ELSE e1
        ELSE e0

\* GraphQlError.fromResponse(data), the new object getting identity id
fromResponse(id, data) ==
    LET e0 == newGraphQlError(id, "unknown error")
    IN  IF data.errors # Undefined
        THEN LET e1 == [e0 EXCEPT !.errors = data.errors]
             IN  IF Len(e1.errors.items) # 0
                 THEN [e1 EXCEPT !.message = e1.errors.items[1].message,
                                 !.codes = Arr(pushCodes(e1.errors.items, 1, e1.codes.items))]
                 ELSE e1
        ELSE e0

\* fromError that tests the class (instanceof) instead of the name
fromErrorByClass(e) == IF e.class = "GraphQlError" THEN e ELSE Null

\* GraphQlError.fromError(err): err itself, or null
fromError(e) == IF e.name = GraphQlErrorName THEN e ELSE Null

\* Array.prototype.includes on an array of numbers
includes(arr, c) == \E n \in 1..Len(arr.items) : arr.items[n] = c

\* GraphQlError.hasErrorCode(err, code); reading .includes of an undefined
\* codes property throws a TypeError
hasErrorCode(e, c) ==
    LET gqlErr == fromError(e)
    IN  IF ~Truthy(gqlErr) THEN False
        ELSE IF gqlErr.codes = Undefined THEN [t |-> "throw", error |-> "TypeError"]
        ELSE IF includes(gqlErr.codes, c) THEN True ELSE False

\* The error objects of an envelope
ErrorMessages == {"bad", "unauthorized"}

Extensions ==
    {Undefined} \cup { [t |-> "object", code |-> c] : c \in {Undefined, Num(0), Num(42), Num(401)} }

ErrorObjects == [message : ErrorMessages, extensions : Extensions]

RECURSIVE SeqsUpTo(_, _)
\* The sequences over S of length at most n
SeqsUpTo(S, n) ==
    IF n = 0 THEN { <<>> }
    ELSE SeqsUpTo(S, n - 1)
         \cup { Append(q, x) : q \in { r \in SeqsUpTo(S, n - 1) : Len(r) = n - 1 }, x \in S }

DataValues == {Undefined, Null, Obj(<<"me">>, <<Obj(<<"id">>, <<Num(1)>>)>>)}

Envelopes ==
    [data : DataValues,
     errors : {Undefined} \cup { Arr(q) : q \in SeqsUpTo(ErrorObjects, MaxErrors) }]

\* Errors that did not come from new GraphQlError: a plain error, the missing-data
\* error, a transport error, and errors that carry the GraphQlError name without
\* having been constructed by it (renamed, or rebuilt from a serialized error)
ForeignErrors ==
    { newError(0, "boom"),
      newError(0, "no data returned"),
      [newError(0, "Network Error") EXCEPT !.class = "AxiosError", !.name = "AxiosError"],
      [newError(0, "bad") EXCEPT !.name = GraphQlErrorName],
      [newError(0, "bad") EXCEPT !.class = "Object", !.name = GraphQlErrorName,
                                 !.codes = Arr(<<Num(42)>>), !.errors = Arr(<<>>)] }

Codes == {Num(0), Num(42), Num(401)}

\* A caller builds an error from a decoded envelope
FromResponse ==
    /\ pc = "noError"
    /\ allocated < MaxObjects
    /\ \E env \in Envelopes :
         /\ envelope' = env
         /\ err' = fromResponse(allocated + 1, env)
    /\ allocated' = allocated + 1
    /\ pc' = "caught"
    /\ UNCHANGED <<code, classified, hasCode>>
    /\ UNCHANGED callVars

\* A caller catches an error that some other code threw
CatchForeign ==
    /\ pc = "noError"
    /\ \E e \in ForeignErrors : err' = e
    /\ pc' = "caught"
    /\ UNCHANGED <<envelope, allocated, code, classified, hasCode>>
    /\ UNCHANGED callVars

\* The caller classifies the error it caught
Classify ==
    /\ pc = "caught"
    /\ \E c \in Codes :
         /\ code' = c
         /\ classified' = fromError(err)
         /\ hasCode' = hasErrorCode(err, c)
    /\ pc' = "classified"
    /\ UNCHANGED <<envelope, allocated, err>>
    /\ UNCHANGED callVars

\* The caller is done with the error
Discard ==
    /\ pc = "classified"
    /\ envelope' = Undefined
    /\ err' = Undefined
    /\ code' = Undefined
    /\ classified' = Undefined
    /\ hasCode' = Undefined
    /\ pc' = "noError"
    /\ UNCHANGED allocated
    /\ UNCHANGED callVars

InitErr ==
    /\ variables = Undefined
    /\ original = Undefined
    /\ queryArg = Undefined
    /\ pc = "noError"
    /\ calls = 0
    /\ query = ""
    /\ map = <<>>
    /\ files = <<>>
    /\ visited = <<>>
    /\ body = Undefined
    /\ headers = <<>>
    /\ firstBody = Undefined
    /\ factoryCalls = 0
    /\ httpClient = Undefined
    /\ posts = <<>>
    /\ response = Undefined
    /\ outcome = NoOutcome
    /\ IdleErrors

NextErr == FromResponse \/ CatchForeign \/ Classify \/ Discard

SpecErr == InitErr /\ [][NextErr]_vars

---------------------------------------------------------------------------
(* The asynchronous part of the client call *)

\* What the injected transport may throw (from the factory or from post)
TransportErrors ==
    { [newError(0, "Network Error") EXCEPT !.class = "AxiosError", !.name = "AxiosError"],
      [newError(0, "Request failed with status code 500")
         EXCEPT !.class = "AxiosError", !.name = "AxiosError"] }

ClientErrorObjects ==
    { [message |-> "bad", extensions |-> Undefined],
      [message |-> "unauthorized", extensions |-> [t |-> "object", code |-> Num(401)]] }

\* The envelopes the transport of the client-call specification decodes
ClientEnvelopes ==
    [data : DataValues,
     errors : {Undefined} \cup { Arr(q) : q \in SeqsUpTo(ClientErrorObjects, MaxCallErrors) }]

\* The .then(({ data }) => ...) handler: how the call settles on a decoded
\* envelope; an error it creates gets identity id
settle(id, data) ==
    IF data.errors # Undefined
    THEN [kind |-> "rejected", error |-> fromResponse(id, data)]
    ELSE IF data.data = Undefined
    THEN [kind |-> "rejected", error |-> newError(id, "no data returned")]
    ELSE [kind |-> "resolved", value |-> data.data]

\* `await clientFactory()` resumes with a transport: the POST is issued
FactoryResolve ==
    /\ pc = "awaitFactory"
    /\ httpClient' = [t |-> "transport"]
    /\ posts' = Append(posts, [path |-> "", body |-> body, headers |-> headers])
    /\ pc' = "awaitPost"
    /\ UNCHANGED <<variables, original, queryArg, calls, query, map, files, visited,
                   body, headers, firstBody, factoryCalls, response, outcome>>
    /\ UNCHANGED errVars

\* `await clientFactory()` throws: the async function rejects with that error
FactoryReject ==
    /\ pc = "awaitFactory"
    /\ \E e \in TransportErrors :
         /\ httpClient' = [t |-> "throw", error |-> e]
         /\ outcome' = [kind |-> "rejected", error |-> e]
    /\ pc' = "done"
    /\ UNCHANGED <<variables, original, queryArg, calls, query, map, files, visited,
                   body, headers, firstBody, factoryCalls, posts, response>>
    /\ UNCHANGED errVars

\* The POST resolves with a decoded envelope: the handler settles the call
PostResolve ==
    /\ pc = "awaitPost"
    /\ \E env \in ClientEnvelopes :
         /\ response' = [t |-> "envelope", data |-> env]
         /\ outcome' = settle(allocated + 1, env)
         /\ allocated' = IF settle(allocated + 1, env).kind = "rejected"
                         THEN allocated + 1 ELSE allocated
    /\ pc' = "done"
    /\ UNCHANGED <<variables, original, queryArg, calls, query, map, files, visited,
                   body, headers, firstBody, factoryCalls, httpClient, posts>>
    /\ UNCHANGED <<envelope, err, code, classified, hasCode>>

\* PostReject that issues the POST a second time before giving up
PostRejectRetries ==
    /\ pc = "awaitPost"
    /\ \E e \in TransportErrors :
         IF Len(posts) < 2
         THEN /\ posts' = Append(posts, [path |-> "", body |-> body, headers |-> headers])
              /\ pc' = "awaitPost"
              /\ UNCHANGED <<response, outcome>>
         ELSE /\ response' = [t |-> "throw", error |-> e]
              /\ outcome' = [kind |-> "rejected", error |-> e]
              /\ pc' = "done"
              /\ UNCHANGED posts
    /\ UNCHANGED <<variables, original, queryArg, calls, query, map, files, visited,
                   body, headers, firstBody, factoryCalls, httpClient>>
    /\ UNCHANGED errVars

\* The POST rejects: the handler is skipped and the call rejects with that error
PostReject ==
    /\ pc = "awaitPost"
    /\ \E e \in TransportErrors :
         /\ response' = [t |-> "throw", error |-> e]
         /\ outcome' = [kind |-> "rejected", error |-> e]
    /\ pc' = "done"
    /\ UNCHANGED <<variables, original, queryArg, calls, query, map, files, visited,
                   body, headers, firstBody, factoryCalls, httpClient, posts>>
    /\ UNCHANGED errVars

\* The caller calls the client again with the same query and the same
\* variables object (a retry)
Again ==
    /\ pc = "done"
    /\ calls < MaxCalls
    /\ pc' = "idle"
    /\ UNCHANGED <<variables, original, queryArg, calls, query, map, files, visited,
                   body, headers, firstBody, factoryCalls, httpClient, posts,
                   response, outcome>>
    /\ UNCHANGED errVars

Init ==
    /\ \E v \in TreesUpTo(MaxCallNodes) \cup {Undefined} :
         \E q \in Queries : IdleCall(v, q)
    /\ IdleErrors

Next == Call \/ FactoryResolve \/ FactoryReject \/ PostResolve \/ PostReject \/ Again

Spec == Init /\ [][Next]_vars

---------------------------------------------------------------------------
(* Reference notions the properties are stated with.  None of them uses    *)
(* the walker: they read the tree the caller built.                        *)

RECURSIVE LeafLocs(_, _)
RECURSIVE ChildLocs(_, _, _, _)

\* The leaves below the children vals (keyed by keys) from position n on
ChildLocs(keys, vals, n, loc) ==
    IF n > Len(vals) THEN <<>>
    ELSE LeafLocs(vals[n], Append(loc, keys[n])) \o ChildLocs(keys, vals, n + 1, loc)

\* The leaf occurrences of a tree in iteration order, each with its location:
\* the sequence of keys and indices that leads to it from the root
LeafLocs(tree, loc) ==
    IF tree.t = "array"
    THEN ChildLocs([i \in 1..Len(tree.items) |-> Num(i - 1)], tree.items, 1, loc)
    ELSE IF tree.t = "object"
    THEN ChildLocs([i \in 1..Len(tree.keys) |-> Str(tree.keys[i])], tree.vals, 1, loc)
    ELSE <<[loc |-> loc, v |-> tree]>>

\* The file occurrences of a tree, in iteration order
FileLocs(tree) == SelectSeq(LeafLocs(tree, <<>>), LAMBDA l : l.v.t = "file")

RECURSIVE DottedPath(_)
\* The dotted path of a location: the root's is the empty string, a child's
\* is its key when the parent's path is empty and parent + "." + key otherwise
DottedPath(loc) ==
    IF loc = <<>> THEN ""
    ELSE LET p == DottedPath(SubSeq(loc, 1, Len(loc) - 1))
             k == ToStr(loc[Len(loc)])
         IN  IF p = "" THEN k ELSE p \o "." \o k

RECURSIVE NullFiles(_)
\* The tree with every file leaf replaced by null and nothing else changed
NullFiles(tree) ==
    IF tree.t = "array"
    THEN Arr([i \in 1..Len(tree.items) |-> NullFiles(tree.items[i])])
    ELSE IF tree.t = "object"
    THEN Obj(tree.keys, [i \in 1..Len(tree.vals) |-> NullFiles(tree.vals[i])])
    ELSE IF tree.t = "file" THEN Null
    ELSE tree

\* The keys "0" .. "N-1"
IndexKeys(N) == { ToString(i) : i \in 0..(N - 1) }

\* The first call on a variables object has built its request
Built == pc = "awaitFactory" /\ calls = 1

\* The value of the form part called name (Undefined when there is none)
Part(form, name) ==
    IF \E n \in 1..Len(form) : form[n].name = name
    THEN form[CHOOSE n \in 1..Len(form) : form[n].name = name].value
    ELSE Undefined

---------------------------------------------------------------------------
(* Properties *)

\* C10: every path handed to the visitor is built by the rule "the child's
\* path is its key k when the parent's path p is empty, and p.k otherwise",
\* for every mapping key and array index, the empty-string key included.
PathRule ==
    Built =>
        LET L == LeafLocs(original, <<>>)
        IN  /\ Len(visited) = Len(L)
            /\ \A i \in 1..Len(L) : visited[i].path = DottedPath(L[i].loc)

\* C10 with the empty-string key left out: on trees without an empty key
\* below a parent with a non-empty path, the rule holds.
PathRuleNonEmptyKeys ==
    Built =>
        LET L == LeafLocs(original, <<>>)
        IN  /\ Len(visited) = Len(L)
            /\ \A i \in 1..Len(L) :
                 (\A j \in 2..Len(L[i].loc) : L[i].loc[j] # Str(""))
                   => visited[i].path = DottedPath(L[i].loc)

\* C3: with N >= 1 file leaves, the file map has the keys "0" .. "N-1" in
\* encounter order, entry i is the one-element list "variables." + the dotted
\* path of the i-th file occurrence, and the payload set has the same keys,
\* key i holding the file of that occurrence.
FileMapOfOccurrences ==
    Built =>
        LET F == FileLocs(original)
        IN  Len(F) >= 1 =>
              /\ DOMAIN map = IndexKeys(Len(F))
              /\ DOMAIN files = IndexKeys(Len(F))
              /\ \A i \in 0..(Len(F) - 1) :
                   /\ map[ToString(i)] = <<"variables." \o DottedPath(F[i + 1].loc)>>
                   /\ files[ToString(i)] = F[i + 1].v

\* C3 read with the path the walker handed to the visitor in place of the
\* occurrence's dotted path: keys, order, count and payloads are as claimed.
FileMapOfVisits ==
    Built =>
        LET F == FileLocs(original)
            V == SelectSeq(visited, LAMBDA c : c.v.t = "file")
        IN  /\ Len(V) = Len(F)
            /\ DOMAIN map = IndexKeys(Len(F))
            /\ DOMAIN files = IndexKeys(Len(F))
            /\ \A i \in 0..(Len(F) - 1) :
                 /\ map[ToString(i)] = <<"variables." \o V[i + 1].path>>
                 /\ files[ToString(i)] = F[i + 1].v

\* C4 as claimed: whenever the variables hold a file leaf (also when they
\* are a file themselves), the variables of the operations part are the
\* input with null at every file leaf and nothing else changed.
OperationsNullEverywhere ==
    Built /\ Len(FileLocs(original)) >= 1 =>
        /\ body.t = "form"
        /\ Part(body.form, "operations")
             = Obj(<<"query", "variables">>, <<Str(query), NullFiles(original)>>)

\* C4 amended: when the file leaves are children of containers, the variables
\* of the operations part are the input with null at the place of every file
\* leaf and nothing else changed; when the variables are themselves a file,
\* the root is not nulled: it is serialized as the empty object {} (and the
\* file map lists it as "variables.").
OperationsNullInContainers ==
    Built /\ Len(FileLocs(original)) >= 1 =>
        /\ body.t = "form"
        /\ Part(body.form, "operations")
             = Obj(<<"query", "variables">>,
                   <<Str(query),
                     IF original.t = "file" THEN Obj(<<>>, <<>>) ELSE NullFiles(original)>>)
        /\ original.t = "file" => map = [k \in {"0"} |-> <<"variables.">>]

\* C4 witness: a request was built from variables holding a file two levels
\* down beside a leaf that is not a file.
NestedFileNulled ==
    /\ Built
    /\ body.t = "form"
    /\ \E i \in 1..Len(LeafLocs(original, <<>>)) :
         /\ LeafLocs(original, <<>>)[i].v.t = "file"
         /\ Len(LeafLocs(original, <<>>)[i].loc) >= 2
    /\ \E i \in 1..Len(LeafLocs(original, <<>>)) :
         LeafLocs(original, <<>>)[i].v.t = "number"

\* C5: the encoding is chosen by the file map alone.  Without file leaves
\* (or without variables) the body is the JSON text of {query, variables}
\* with the variables as the caller gave them, and the headers are exactly
\* Accept and Content-Type, both application/json; with N >= 1 file leaves
\* the body is a form with the parts operations, map, "0" .. "N-1", and the
\* headers are exactly Accept: application/json.
EncodingChosenByFiles ==
    Built =>
        LET N == Len(FileLocs(original))
        IN  /\ (body.t = "form") = (DOMAIN map # {})
            /\ N = 0 =>
                 /\ body = [t |-> "json",
                            text |-> IF original = Undefined
                                     THEN Obj(<<"query">>, <<Str(query)>>)
                                     ELSE Obj(<<"query", "variables">>,
                                              <<Str(query), original>>)]
                 /\ variables = original
                 /\ headers = [h \in {"Accept", "Content-Type"} |-> "application/json"]
            /\ N >= 1 =>
                 /\ body.t = "form"
                 /\ [n \in 1..Len(body.form) |-> body.form[n].name]
                      = <<"operations", "map">> \o [i \in 1..N |-> ToString(i - 1)]
                 /\ \A i \in 1..N : body.form[i + 2].value.t = "file"
                 /\ headers = [h \in {"Accept"} |-> "application/json"]

\* C5 witness: a multipart request with two file parts was built.
MultipartWithTwoFiles ==
    Built /\ body.t = "form" /\ Len(body.form) = 4

RejectsOnlyOnNonEmptyErrors ==
    pc = "done" /\ response.t = "envelope" =>
        LET d == response.data
        IN  IF d.errors # Undefined /\ Len(d.errors.items) # 0
            THEN /\ outcome.kind = "rejected"
                 /\ outcome.error.class = "GraphQlError"
                 /\ outcome.error.message = d.errors.items[1].message
                 /\ outcome.error.errors = d.errors
            ELSE IF d.data = Undefined
            THEN /\ outcome.kind = "rejected"
                 /\ outcome.error.class = "Error"
                 /\ outcome.error.message = "no data returned"
            ELSE outcome = [kind |-> "resolved", value |-> d.data]

\* C1 as the code has it: the GraphQlError path is taken whenever errors is
\* present, empty or not.
RejectsOnPresentErrors ==
    pc = "done" /\ response.t = "envelope" =>
        LET d == response.data
        IN  IF d.errors # Undefined
            THEN /\ outcome.kind = "rejected"
                 /\ outcome.error.class = "GraphQlError"
                 /\ outcome.error.message
                      = IF Len(d.errors.items) # 0 THEN d.errors.items[1].message
                        ELSE "unknown error"
            ELSE IF d.data = Undefined
            THEN /\ outcome.kind = "rejected"
                 /\ outcome.error.class = "Error"
                 /\ outcome.error.message = "no data returned"
            ELSE outcome = [kind |-> "resolved", value |-> d.data]

\* C2: a call leaves the caller's variables object as it was, file leaves
\* included, so that a later call with the same object builds the same
\* request as the first one did.
VariablesNotModified ==
    /\ variables = original
    /\ calls >= 2 /\ pc # "idle" => body = firstBody

\* C8: in every call the factory is invoked once; no POST is issued before
\* it has yielded a transport, and then exactly one, to the path "" with the
\* built body and headers; never a second one; a failure of the factory or
\* of the POST rejects the call with that very error.
OnePostPerCall ==
    /\ pc \in {"awaitFactory", "awaitPost", "done"} => factoryCalls = 1
    /\ pc = "awaitFactory" => posts = <<>> /\ httpClient = Undefined
    /\ posts # <<>> =>
         /\ httpClient = [t |-> "transport"]
         /\ posts = <<[path |-> "", body |-> body, headers |-> headers]>>
    /\ pc = "awaitPost" => Len(posts) = 1
    /\ pc = "done" =>
         /\ httpClient.t = "transport" => Len(posts) = 1
         /\ httpClient.t = "throw" =>
              /\ posts = <<>>
              /\ outcome = [kind |-> "rejected", error |-> httpClient.error]
         /\ response.t = "throw" =>
              outcome = [kind |-> "rejected", error |-> response.error]
         /\ outcome.kind \in {"resolved", "rejected"}

\* C8 witness: a call whose POST failed has settled.
PostFailureSettled ==
    /\ pc = "done"
    /\ response.t = "throw"
    /\ outcome.kind = "rejected"
    /\ body.t = "form"

\* C6: fromResponse gives a GraphQlError whose message is "unknown error",
\* with empty errors and codes, when errors is absent or empty; and otherwise
\* the first error's message, the envelope's errors, and as codes the truthy
\* extensions.code values in the order of their errors, duplicates kept.
FromResponseNormalizes ==
    pc \in {"caught", "classified"} /\ envelope # Undefined =>
        /\ err.class = "GraphQlError"
        /\ IF envelope.errors = Undefined \/ envelope.errors = Arr(<<>>)
           THEN /\ err.message = "unknown error"
                /\ err.errors = Arr(<<>>)
                /\ err.codes = Arr(<<>>)
           ELSE LET E == envelope.errors.items
                    S == SelectSeq(E, LAMBDA e :
                           /\ e.extensions # Undefined
                           /\ e.extensions.code # Undefined
                           /\ e.extensions.code # Num(0))
                IN  /\ err.message = E[1].message
                    /\ err.errors = envelope.errors
                    /\ err.codes = Arr([k \in 1..Len(S) |-> S[k].extensions.code])

\* C6 witness: an error was built from an envelope with a repeated code and
\* an error without a truthy code.
DuplicateCodesKept ==
    /\ pc = "caught"
    /\ envelope # Undefined
    /\ err.codes = Arr(<<Num(42), Num(42)>>)
    /\ Len(err.errors.items) = 3

\* C7 as claimed: fromError returns err itself exactly for the errors that
\* were constructed as a GraphQlError and null for every other error, and
\* hasErrorCode is false, without throwing, for every other error, and
\* membership in the codes list for a GraphQlError.
ClassifiedExactly ==
    pc = "classified" =>
        /\ classified = IF err.class = "GraphQlError" THEN err ELSE Null
        /\ err.class # "GraphQlError" => hasCode = False
        /\ err.class = "GraphQlError" =>
             hasCode = IF \E n \in 1..Len(err.codes.items) : err.codes.items[n] = code
                       THEN True ELSE False

\* C7 amended: fromError returns err itself exactly when err's name is
\* "GraphQlError", which every error built by fromResponse has, and null for
\* every error of another name (plain, transport and "no data returned"
\* errors); hasErrorCode is false, without throwing, for every error of
\* another name, and membership in the codes list for an error constructed
\* as a GraphQlError.  An error that carries the name without having been
\* constructed as one is classified as one too, and hasErrorCode then reads
\* its codes property: membership when it has one, a TypeError when not.
ClassifiedByName ==
    pc = "classified" =>
        /\ classified = IF err.name = "GraphQlError" THEN err ELSE Null
        /\ err.class = "GraphQlError" =>
             /\ classified = err
             /\ hasCode = IF \E n \in 1..Len(err.codes.items) : err.codes.items[n] = code
                          THEN True ELSE False
        /\ err.name # "GraphQlError" => classified = Null /\ hasCode = False
        /\ err.name = "GraphQlError" /\ err.class # "GraphQlError" =>
             /\ classified = err
             /\ hasCode = IF err.codes = Undefined
                          THEN [t |-> "throw", error |-> "TypeError"]
                          ELSE IF \E n \in 1..Len(err.codes.items) : err.codes.items[n] = code
                          THEN True ELSE False

\* C7 witness: an error built by fromResponse was classified and found to
\* hold the code asked for.
BuiltErrorHasCode ==
    /\ pc = "classified"
    /\ envelope # Undefined
    /\ err.class = "GraphQlError"
    /\ classified = err
    /\ hasCode = True

====
